---- MODULE Spec2Model ----
(***************************************************************************)
(* Hackathon recommender: the lexical matcher (GeminiAPI), the embedding   *)
(* matcher (SBERTModel) and the operations that rank a batch of hackathons *)
(* against a user's skills.                                                *)
(*                                                                         *)
(* Strings are TLA+ strings; lower(), strip() and the substring test `in`  *)
(* are computed character by character.  Scores that Python holds as       *)
(* floats are held here as exact fractions [num, den] (den > 0), so that   *)
(* base_score + bonus and min(1.0, .) are exact.                           *)
(***************************************************************************)
EXTENDS Integers, Sequences, FiniteSets, TLC

(***************************************************************************)
(* The strings the inputs are drawn from                                   *)
(***************************************************************************)
KeywordPool == {"python", "web", "flask", "ai", "nlp", "rust", " ", "web security"}
SkillPool   == {"python", "machine learning", "learning", " Web"}

(***************************************************************************)
(* Strings                                                                 *)
(***************************************************************************)
UpperChars == "ABCDEFGHIJKLMNOPQRSTUVWXYZ"
LowerChars == "abcdefghijklmnopqrstuvwxyz"

CharAt(s, i) == SubSeq(s, i, i)

LowerMap ==
    [c \in {CharAt(UpperChars, i) : i \in 1..Len(UpperChars)} |->
        CharAt(LowerChars, CHOOSE i \in 1..Len(UpperChars) : CharAt(UpperChars, i) = c)]

\* str.lower() on one character
LowerChar(c) == IF c \in DOMAIN LowerMap THEN LowerMap[c] ELSE c

RECURSIVE lower(_)
lower(s) ==
    IF Len(s) = 0 THEN ""
    ELSE LowerChar(CharAt(s, 1)) \o lower(SubSeq(s, 2, Len(s)))

IsSpace(c) == c \in {" ", "\t", "\n"}

\* str.strip(): leading and trailing whitespace removed
strip(s) ==
    LET keep == {i \in 1..Len(s) : ~IsSpace(CharAt(s, i))}
    IN  IF keep = {} THEN ""
        ELSE LET first == CHOOSE i \in keep : \A j \in keep : i <= j
                 last  == CHOOSE i \in keep : \A j \in keep : j <= i
             IN  SubSeq(s, first, last)

\* Python's `sub in s` on strings
Contains(s, sub) ==
    \/ Len(sub) = 0
    \/ \E i \in 1..(Len(s) - Len(sub) + 1) : SubSeq(s, i, i + Len(sub) - 1) = sub

\* Python's `x in list`
InList(x, list) == \E i \in 1..Len(list) : list[i] = x

ListToSet(list) == {list[i] : i \in 1..Len(list)}

RECURSIVE SetToList(_)
SetToList(S) ==
    IF S = {} THEN <<>>
    ELSE LET x == CHOOSE y \in S : TRUE
         IN  <<x>> \o SetToList(S \ {x})

\* k.lower().strip(), computed once for each string of the pools
NormalizedPool == [s \in KeywordPool \cup SkillPool |-> strip(lower(s))]

Normalize(s) == IF s \in DOMAIN NormalizedPool THEN NormalizedPool[s] ELSE strip(lower(s))

\* [k.lower().strip() for k in list if k]: the truthiness filter drops only
\* the empty string, before it is stripped
RECURSIVE NormalizeList(_)
NormalizeList(list) ==
    IF Len(list) = 0 THEN <<>>
    ELSE LET rest == NormalizeList(Tail(list))
         IN  IF Head(list) = "" THEN rest
             ELSE <<Normalize(Head(list))>> \o rest

(***************************************************************************)
(* Exact fractions for the float scores                                    *)
(***************************************************************************)
Frac(n, d) == [num |-> n, den |-> d]
Zero == Frac(0, 1)
One  == Frac(1, 1)
FLeq(a, b) == a.num * b.den <= b.num * a.den
FLt(a, b)  == a.num * b.den <  b.num * a.den
FEq(a, b)  == a.num * b.den =  b.num * a.den
FAdd(a, b) == Frac(a.num * b.den + b.num * a.den, a.den * b.den)
FMin(a, b) == IF FLeq(a, b) THEN a ELSE b
InUnit(a)  == FLeq(Zero, a) /\ FLeq(a, One)

(***************************************************************************)
(* GeminiAPI.tech_keywords                                                 *)
(***************************************************************************)
tech_keywords == <<
    [category |-> "python",     terms |-> <<"python", "django", "flask", "fastapi", "pytorch", "tensorflow", "pandas", "numpy">>],
    [category |-> "javascript", terms |-> <<"javascript", "js", "node.js", "react", "vue", "angular", "typescript", "frontend">>],
    [category |-> "web",        terms |-> <<"web", "frontend", "backend", "fullstack", "html", "css", "web development">>],
    [category |-> "mobile",     terms |-> <<"mobile", "ios", "android", "react native", "flutter", "app development">>],
    [category |-> "ai",         terms |-> <<"ai", "artificial intelligence", "machine learning", "ml", "deep learning", "nlp">>],
    [category |-> "data",       terms |-> <<"data science", "data analysis", "big data", "data visualization", "analytics">>],
    [category |-> "cloud",      terms |-> <<"aws", "azure", "gcp", "cloud computing", "serverless", "cloud">>],
    [category |-> "devops",     terms |-> <<"devops", "docker", "kubernetes", "ci/cd", "jenkins", "deployment">>],
    [category |-> "blockchain", terms |-> <<"blockchain", "web3", "smart contracts", "cryptocurrency", "crypto">>],
    [category |-> "security",   terms |-> <<"cybersecurity", "security", "encryption", "authentication", "privacy">>],
    [category |-> "game",       terms |-> <<"game development", "unity", "unreal", "gaming", "game design">>],
    [category |-> "ar/vr",      terms |-> <<"augmented reality", "virtual reality", "ar", "vr", "mixed reality">>],
    [category |-> "iot",        terms |-> <<"internet of things", "iot", "embedded systems", "hardware">>],
    [category |-> "ui/ux",      terms |-> <<"ui design", "ux design", "user interface", "user experience", "design">>],
    [category |-> "database",   terms |-> <<"sql", "mongodb", "postgresql", "mysql", "database", "nosql">>]
>>

\* the two bonus tiers of calculate_match_score
AdvancedTerms == <<"ai", "machine learning", "cloud", "blockchain", "security">>
WebTerms      == <<"web", "mobile", "fullstack", "frontend", "backend">>

\* any(term in skill for term in terms)
AnyTermIn(skill, terms) == \E i \in 1..Len(terms) : Contains(skill, terms[i])

(***************************************************************************)
(* GeminiAPI.calculate_match_score                                         *)
(***************************************************************************)
\* variant: the substring test is turned round, `skill in term`
SkillMatchesCategory_SkillInTerm(skill, entry) ==
    \/ InList(skill, entry.terms)
    \/ skill = entry.category
    \/ \E i \in 1..Len(entry.terms) : Contains(entry.terms[i], skill)

\* the condition under which a category's terms join expanded_skills
SkillMatchesCategory(skill, entry) ==
    \/ InList(skill, entry.terms)
    \/ skill = entry.category
    \/ AnyTermIn(skill, entry.terms)

\* variant: the skill alone, no category is expanded
ExpandSkill_NoExpansion(skill) == {skill}

\* the terms one skill contributes to expanded_skills
ExpandSkill(skill) ==
    {skill} \cup UNION {ListToSet(tech_keywords[c].terms) :
                            c \in {d \in 1..Len(tech_keywords) :
                                       SkillMatchesCategory(skill, tech_keywords[d])}}

\* ExpandSkill, computed once for each normalized string of the pools
ExpandedPool == [skill \in {NormalizedPool[s] : s \in DOMAIN NormalizedPool} |-> ExpandSkill(skill)]

\* variant: expanded_skills is overwritten by each skill instead of growing
ExpandSkills_LastOnly(skills) ==
    IF Len(skills) = 0 THEN {} ELSE ExpandSkill(skills[Len(skills)])

\* expanded_skills of an already normalized skill list
ExpandSkills(skills) ==
    UNION {IF skills[i] \in DOMAIN ExpandedPool THEN ExpandedPool[skills[i]]
           ELSE ExpandSkill(skills[i]) : i \in 1..Len(skills)}

\* variant: `if` twice instead of `if` / `elif`, a term can earn both tiers
TermBonus_BothTiers(skill) ==
    (IF AnyTermIn(skill, AdvancedTerms) THEN 2 ELSE 0) + (IF AnyTermIn(skill, WebTerms) THEN 1 ELSE 0)

\* variant: the 0.1 tier is missing
TermBonus_NoAdvanced(skill) == IF AnyTermIn(skill, WebTerms) THEN 1 ELSE 0

\* the bonus of one matched term, in twentieths: 0.1 -> 2, 0.05 -> 1
TermBonus(skill) ==
    IF AnyTermIn(skill, AdvancedTerms) THEN 2
    ELSE IF AnyTermIn(skill, WebTerms) THEN 1
    ELSE 0

RECURSIVE SumBonus(_)
SumBonus(matches) ==
    IF matches = {} THEN 0
    ELSE LET m == CHOOSE x \in matches : TRUE
         IN  TermBonus(m) + SumBonus(matches \ {m})

Max(a, b) == IF a >= b THEN a ELSE b

\* matches = set(hackathon_keywords) & expanded_skills, after normalization
Matches(hackathon_keywords, user_skills) ==
    ListToSet(NormalizeList(hackathon_keywords)) \cap ExpandSkills(NormalizeList(user_skills))

\* base_score = len(matches) / max(len(hackathon_keywords), 1)
BaseScore(matches, keywords) == Frac(Cardinality(matches), Max(Len(keywords), 1))

\* bonus, a sum of 0.1 and 0.05 steps
Bonus(matches) == Frac(SumBonus(matches), 20)

\* variant: the sum is not clamped
FinalScore_NoClamp(base_score, bonus) == FAdd(base_score, bonus)

\* final_score = min(1.0, base_score + bonus)
FinalScore(base_score, bonus) == FMin(One, FAdd(base_score, bonus))

calculate_match_score(hackathon_keywords, user_skills) ==
    LET keywords == NormalizeList(hackathon_keywords)
        matches  == Matches(hackathon_keywords, user_skills)
    IN  IF Len(keywords) = 0 THEN Zero
        ELSE FinalScore(BaseScore(matches, keywords), Bonus(matches))

(***************************************************************************)
(* GeminiAPI.calculate_evaluation_metrics (set-based metrics)              *)
(***************************************************************************)
\* a / b if b > 0 else 0
Ratio(a, b) == IF b > 0 THEN Frac(a, b) ELSE Zero

\* 2 * (p * r) / (p + r) if (p + r) > 0 else 0
F1(p, r) ==
    IF p.num * r.den + r.num * p.den > 0
    THEN Frac(2 * p.num * r.num, p.num * r.den + r.num * p.den)
    ELSE Zero

\* accuracy = (tp + (total_terms - (fp + fn))) / total_terms if total_terms > 0 else 0
Accuracy(tp, fp, fn, total_terms) ==
    IF total_terms > 0 THEN Frac(tp + (total_terms - (fp + fn)), total_terms) ELSE Zero

\* dot_product / (hackathon_magnitude * skills_magnitude) over the binary presence
\* vectors; the magnitudes are square roots, so the value is held as
\* dot / sqrt(sq) with sq the product of the two squared magnitudes
BinaryCosine(dot, hsq, ssq) ==
    IF hsq * ssq > 0 THEN [dot |-> dot, sq |-> hsq * ssq] ELSE [dot |-> 0, sq |-> 1]

\* 0 <= dot / sqrt(sq) <= 1
CosInUnit(c) == c.dot >= 0 /\ c.dot * c.dot <= c.sq

calculate_evaluation_metrics(hackathon_keywords, user_skills) ==
    LET keywords        == ListToSet(NormalizeList(hackathon_keywords))
        expanded_skills == ExpandSkills(NormalizeList(user_skills))
        true_positives  == Cardinality(keywords \cap expanded_skills)
        false_positives == Cardinality(keywords \ expanded_skills)
        false_negatives == Cardinality(expanded_skills \ keywords)
        precision       == Ratio(true_positives, true_positives + false_positives)
        recall          == Ratio(true_positives, true_positives + false_negatives)
        all_terms       == keywords \cup expanded_skills
    IN  [precision         |-> precision,
         recall            |-> recall,
         f1_score          |-> F1(precision, recall),
         cosine_similarity |-> BinaryCosine(Cardinality(all_terms \cap keywords \cap expanded_skills),
                                            Cardinality(all_terms \cap keywords),
                                            Cardinality(all_terms \cap expanded_skills)),
         accuracy          |-> Accuracy(true_positives, false_positives, false_negatives,
                                        Cardinality(all_terms))]

(***************************************************************************)
(* GeminiAPI.extract_keywords                                              *)
(***************************************************************************)
IsSeparator(c) == IsSpace(c) \/ c \in {",", ":"}

\* the tokens of a text: maximal runs of characters between separators
RECURSIVE Tokens(_, _)
Tokens(s, word) ==
    IF Len(s) = 0 THEN (IF word = "" THEN <<>> ELSE <<word>>)
    ELSE IF IsSeparator(CharAt(s, 1))
         THEN (IF word = "" THEN <<>> ELSE <<word>>) \o Tokens(SubSeq(s, 2, Len(s)), "")
         ELSE Tokens(SubSeq(s, 2, Len(s)), word \o CharAt(s, 1))

\* doc = self.nlp(text.lower()).  spaCy's parse is outside the repository: here
\* every token is tagged NOUN and no multi-word noun chunk is reported.
nlp(text) == [noun_chunks |-> <<>>, nouns |-> Tokens(text, "")]

\* keywords from the parse: the noun chunks, and the NOUN / PROPN tokens longer
\* than 2 characters
DocKeywords(doc) ==
    ListToSet(doc.noun_chunks) \cup {doc.nouns[i] : i \in {j \in 1..Len(doc.nouns) : Len(doc.nouns[j]) > 2}}

\* for one category: the category and the first of its terms found in the text,
\* nothing when no term is found (the loop breaks at the first hit)
CategoryMatch(entry, text) ==
    LET hits == {i \in 1..Len(entry.terms) : Contains(text, entry.terms[i])}
    IN  IF hits = {} THEN {}
        ELSE {entry.category, entry.terms[CHOOSE i \in hits : \A j \in hits : i <= j]}

TechMatches(text) == UNION {CategoryMatch(tech_keywords[c], text) : c \in 1..Len(tech_keywords)}

\* filtered_keywords = [k for k in all_keywords if len(k) > 2]
FilterShort(keywords) == {k \in keywords : Len(k) > 2}

extract_keywords(text) ==
    FilterShort(DocKeywords(nlp(lower(text))) \cup TechMatches(lower(text)))

(***************************************************************************)
(* Hackathon records                                                       *)
(***************************************************************************)
\* ', '.join(list)
RECURSIVE Join(_)
Join(list) ==
    IF Len(list) = 0 THEN ""
    ELSE IF Len(list) = 1 THEN list[1]
    ELSE list[1] \o ", " \o Join(Tail(list))

\* the record get_hackathons_from_csv builds from one row (the f-string's
\* indentation is left out of full_text)
HackathonRecord(title, description, requirements, keywords) ==
    [title        |-> title,
     description  |-> description,
     requirements |-> requirements,
     keywords     |-> keywords,
     full_text    |-> "\n" \o description \o "\nRequirements: " \o Join(requirements)
                      \o "\nKeywords: " \o Join(keywords) \o "\n"]

\* the row load_raw_hackathons keeps: the columns of the CSV, no full_text
RawRecord(title, description) == [title |-> title, description |-> description]

\* a batch item that is no dict (None, a string): .get and [key] raise on it
NotADict == [not_a_dict |-> TRUE]
IsDict(h) == "not_a_dict" \notin DOMAIN h

\* dict.get(key, default)
Get(h, key, default) == IF key \in DOMAIN h THEN h[key] ELSE default

RECURSIVE ConcatAll(_)
ConcatAll(sets) ==
    IF Len(sets) = 0 THEN {} ELSE Head(sets) \cup ConcatAll(Tail(sets))

(***************************************************************************)
(* The hackathons and skill lists the ranking inputs are drawn from        *)
(***************************************************************************)
HackathonPool == {
    HackathonRecord("PyHack",   "Build a Flask web app", <<"python">>, <<"python", "flask">>),
    HackathonRecord("AI Jam",   "NLP and AI models",     <<>>,         <<"ai", "nlp">>),
    HackathonRecord("Art Day",  "Paint and draw",        <<>>,         <<>>),
    HackathonRecord("Hard Hat", "Robots and sensors",    <<>>,         <<"hardware">>) }

\* records for small batches: two hackathons that differ in the title only, a
\* row without full_text, and an item that is no dict
EdgePool == {
    HackathonRecord("PyHack",   "Build a Flask web app", <<"python">>, <<"python", "flask">>),
    HackathonRecord("PyTwin",   "Build a Flask web app", <<"python">>, <<"python", "flask">>),
    HackathonRecord("AI Jam",   "NLP and AI models",     <<>>,         <<"ai", "nlp">>),
    RawRecord("Raw Row", "Build a Flask web app"),
    NotADict }

RankSkillLists == {<<>>, <<"python">>, <<"machine learning", "python">>}

(***************************************************************************)
(* list.sort(key=..., reverse=True): descending and stable                 *)
(***************************************************************************)
\* variant: equal keys come out in reverse input order (sort ascending, then
\* reverse the list)
SortedPlace_Unstable(keys, i) ==
    1 + Cardinality({j \in 1..Len(keys) : FLt(keys[i], keys[j])})
      + Cardinality({j \in (i + 1)..Len(keys) : FEq(keys[j], keys[i])})

\* the place of element i: after every element with a greater key and after
\* the earlier elements with an equal key
SortedPlace(keys, i) ==
    1 + Cardinality({j \in 1..Len(keys) : FLt(keys[i], keys[j])})
      + Cardinality({j \in 1..(i - 1) : FEq(keys[j], keys[i])})

\* variant: the list is left in input order
SortDescending_Unsorted(list, keys) == list

SortDescending(list, keys) ==
    [p \in 1..Len(list) |-> list[CHOOSE i \in 1..Len(list) : SortedPlace(keys, i) = p]]

\* list[:n]
Take(list, n) == SubSeq(list, 1, IF Len(list) < n THEN Len(list) ELSE n)

(***************************************************************************)
(* GeminiAPI.analyze_hackathons (lexical variant)                          *)
(***************************************************************************)
\* recommendations[:5]
TopN == 5

\* the keyword list of one hackathon: predefined, extracted from full_text and
\* extracted from each requirement, deduplicated
AllKeywords(hackathon) ==
    LET requirements == Get(hackathon, "requirements", <<>>)
    IN  SetToList(ListToSet(Get(hackathon, "keywords", <<>>))
                  \cup extract_keywords(hackathon.full_text)
                  \cup ConcatAll([i \in 1..Len(requirements) |-> extract_keywords(requirements[i])]))

\* variant: hackathons that score 0 are kept
Included_NonNegative(match_score) == FLeq(Zero, match_score)

\* if match_score > 0
Included(match_score) == FLt(Zero, match_score)

\* the body of the loop for one hackathon: <<>> when nothing is appended (an
\* AttributeError or KeyError caught by the except clause, or match_score = 0),
\* else the one recommendation
ProcessHackathon(hackathon, user_skills) ==
    IF ~IsDict(hackathon) THEN <<>>
    ELSE IF "full_text" \notin DOMAIN hackathon THEN <<>>
    ELSE LET all_keywords == AllKeywords(hackathon)
             score        == calculate_match_score(all_keywords, user_skills)
         IN  IF ~Included(score) THEN <<>>
             ELSE IF ~({"title", "description"} \subseteq DOMAIN hackathon) THEN <<>>
             ELSE << [title              |-> hackathon.title,
                      description        |-> hackathon.description,
                      requirements       |-> Get(hackathon, "requirements", <<>>),
                      prize              |-> Get(hackathon, "prize", "Not specified"),
                      criteria           |-> Get(hackathon, "criteria", ""),
                      deadline           |-> Get(hackathon, "deadline", "No deadline specified"),
                      keywords           |-> all_keywords,
                      match_score        |-> score,
                      evaluation_metrics |-> calculate_evaluation_metrics(all_keywords, user_skills)] >>

\* ProcessHackathon, computed once for each hackathon and skill list of the pools
ProcessedPool == {<<h, s, ProcessHackathon(h, s)>> : h \in HackathonPool \cup EdgePool, s \in RankSkillLists}

Process(hackathon, user_skills) ==
    IF \E e \in ProcessedPool : e[1] = hackathon /\ e[2] = user_skills
    THEN (CHOOSE e \in ProcessedPool : e[1] = hackathon /\ e[2] = user_skills)[3]
    ELSE ProcessHackathon(hackathon, user_skills)

\* the loop over the batch
RECURSIVE ProcessAll(_, _)
ProcessAll(hackathons, user_skills) ==
    IF Len(hackathons) = 0 THEN <<>>
    ELSE Process(Head(hackathons), user_skills) \o ProcessAll(Tail(hackathons), user_skills)

MatchScores(recommendations) == [i \in 1..Len(recommendations) |-> recommendations[i].match_score]

GeminiAPI_analyze_hackathons(hackathons, user_skills) ==
    LET recommendations == ProcessAll(hackathons, user_skills)
    IN  Take(SortDescending(recommendations, MatchScores(recommendations)), TopN)

(***************************************************************************)
(* SBERTModel (embedding variant)                                          *)
(***************************************************************************)
\* the floats of this variant: a fraction [num, den], a cosine dot / sqrt(sq)
\* of two integer vectors, or a non-finite value
NaN == [nan |-> TRUE]
IsCos(val) == "dot" \in DOMAIN val
IsNaN(val) == "nan" \in DOMAIN val

\* round(x, digits) of a fraction: the nearest multiple of 10^-digits
Pow10(digits) == IF digits = 4 THEN 10000 ELSE IF digits = 2 THEN 100 ELSE 1
RECURSIVE GCD(_, _)
GCD(a, b) == IF b = 0 THEN a ELSE GCD(b, a % b)

Round(x, digits) ==
    LET g == GCD(Pow10(digits), x.den)
        s == Pow10(digits) \div g
        e == x.den \div g
    IN  Frac((2 * x.num * s + e) \div (2 * e), Pow10(digits))

\* the largest q in lo..hi with (2q - 1)^2 * sq <= (2 * scale * dot)^2, that is
\* the nearest integer to scale * dot / sqrt(sq), for dot > 0
RECURSIVE NearestBelow(_, _, _, _, _)
NearestBelow(dot, sq, scale, lo, hi) ==
    IF lo = hi THEN lo
    ELSE LET mid == (lo + hi + 1) \div 2
         IN  IF (2 * mid - 1) * (2 * mid - 1) * sq <= (2 * scale * dot) * (2 * scale * dot)
             THEN NearestBelow(dot, sq, scale, mid, hi)
             ELSE NearestBelow(dot, sq, scale, lo, mid - 1)

\* round(dot / sqrt(sq), 4)
RoundCos(c) ==
    IF c.dot = 0 THEN Zero
    ELSE IF c.dot > 0 THEN Frac(NearestBelow(c.dot, c.sq, 10000, 0, 10000), 10000)
    ELSE Frac(0 - NearestBelow(0 - c.dot, c.sq, 10000, 0, 10000), 10000)

sanitize_float(val) ==
    IF IsNaN(val) THEN Zero
    ELSE IF IsCos(val) THEN RoundCos(val)
    ELSE Round(val, 4)

\* the dimension of the embeddings of the model
EmbeddingDimension == 2

Vector(x, y) == [i \in 1..EmbeddingDimension |-> IF i = 1 THEN x ELSE IF i = 2 THEN y ELSE 0]
\* variant: the fallback embedding is not the zero vector
Zeros_Ones == [i \in 1..EmbeddingDimension |-> 1]

Zeros == [i \in 1..EmbeddingDimension |-> 0]

\* an embedding: a vector of integers, or one with a non-finite component
Finite(v)  == [finite |-> TRUE,  v |-> v]
NonFinite  == [finite |-> FALSE, v |-> Zeros]

RECURSIVE DotUpTo(_, _, _)
DotUpTo(a, b, n) == IF n = 0 THEN 0 ELSE a[n] * b[n] + DotUpTo(a, b, n - 1)
Dot(a, b) == DotUpTo(a, b, Len(a))

\* similarity before it is sanitized: 0.0 unless the product of the norms is
\* > 0.  A non-finite component makes that product inf (the division is then
\* inf / inf or nan / inf) or, against a zero vector, nan (which is not > 0).
RawSimilarity(user_embedding, hackathon_embedding) ==
    IF user_embedding.finite /\ hackathon_embedding.finite
    THEN IF Dot(user_embedding.v, user_embedding.v) * Dot(hackathon_embedding.v, hackathon_embedding.v) > 0
         THEN [dot |-> Dot(user_embedding.v, hackathon_embedding.v),
               sq  |-> Dot(user_embedding.v, user_embedding.v) * Dot(hackathon_embedding.v, hackathon_embedding.v)]
         ELSE Zero
    ELSE IF \/ (user_embedding.finite /\ Dot(user_embedding.v, user_embedding.v) = 0)
            \/ (hackathon_embedding.finite /\ Dot(hackathon_embedding.v, hackathon_embedding.v) = 0)
         THEN Zero
         ELSE NaN

\* SentenceTransformer.encode, outside the repository: the embedding it gives
\* each text of the pools, or Raises
Raises == [raises |-> TRUE]

ModelEncode(text) ==
    CASE text = ""                         -> Raises
      [] text = "python"                   -> Finite(Vector(1, 0))
      [] text = "machine learning, python" -> Finite(Vector(1, 1))
      [] text = "Build a Flask web app"    -> Finite(Vector(1, 1))
      [] text = "NLP and AI models"        -> Finite(Vector(-1, 0))
      [] text = "Paint and draw"           -> Raises
      [] text = "Robots and sensors"       -> NonFinite
      [] OTHER                             -> Finite(Vector(0, 1))

\* SBERTModel.encode_text: the zero vector when the model raises
encode_text(text) ==
    IF ModelEncode(text) = Raises THEN Finite(Zeros) ELSE ModelEncode(text)

\* similarities: one sanitized similarity for each hackathon
Similarities(hackathons, user_embedding) ==
    [i \in 1..Len(hackathons) |->
        sanitize_float(RawSimilarity(user_embedding,
                                     encode_text(Get(hackathons[i], "description", ""))))]

RECURSIVE SumNum(_, _)
SumNum(fracs, n) == IF n = 0 THEN 0 ELSE fracs[n].num + SumNum(fracs, n - 1)

\* true_labels = [1 if i < len(similarities) // 2 else 0 ...], i counted from 0
TrueLabels(similarities) ==
    [i \in 1..Len(similarities) |-> IF i - 1 < Len(similarities) \div 2 THEN 1 ELSE 0]

\* variant: `>=` instead of `>`
PredictedLabels_AtLeast(similarities) ==
    [i \in 1..Len(similarities) |->
        IF similarities[i].num * Len(similarities) >= SumNum(similarities, Len(similarities))
        THEN 1 ELSE 0]

\* predicted_labels = [1 if sim > threshold else 0 ...], threshold the mean of
\* the similarities (all of one denominator)
PredictedLabels(similarities) ==
    [i \in 1..Len(similarities) |->
        IF similarities[i].num * Len(similarities) > SumNum(similarities, Len(similarities))
        THEN 1 ELSE 0]

Count(true_labels, predicted_labels, t, p) ==
    Cardinality({i \in 1..Len(true_labels) : true_labels[i] = t /\ predicted_labels[i] = p})

\* sklearn's accuracy_score, precision_score, recall_score and f1_score on
\* binary labels with zero_division=0, each sanitized
BatchMetrics(true_labels, predicted_labels) ==
    LET tp == Count(true_labels, predicted_labels, 1, 1)
        fp == Count(true_labels, predicted_labels, 0, 1)
        fn == Count(true_labels, predicted_labels, 1, 0)
        tn == Count(true_labels, predicted_labels, 0, 0)
    IN  [accuracy  |-> sanitize_float(Ratio(tp + tn, Len(true_labels))),
         precision |-> sanitize_float(Ratio(tp, tp + fp)),
         recall    |-> sanitize_float(Ratio(tp, tp + fn)),
         f1        |-> sanitize_float(Ratio(2 * tp, 2 * tp + fp + fn))]

\* variant: the similarity is not scaled to a percentage
MatchPercentage_Unscaled(sim) == sanitize_float(sim)

\* match_percentage = self.sanitize_float(round(sim * 100, 2))
MatchPercentage(sim) == sanitize_float(Round(Frac(sim.num * 100, sim.den), 2))

\* one entry of results; the numeric top-level fields are sanitized once more
\* by the deep sanitization pass
SbertResult(hackathon, sim, m) ==
    LET requirements == Get(hackathon, "requirements", <<>>)
    IN  [title              |-> Get(hackathon, "title", ""),
         similarity         |-> sanitize_float(sanitize_float(sim)),
         match_score        |-> sanitize_float(MatchPercentage(sim)),
         description        |-> Get(hackathon, "description", ""),
         prize              |-> Get(hackathon, "prize", ""),
         deadline           |-> Get(hackathon, "deadline", ""),
         keywords           |-> Get(hackathon, "keywords", <<>>),
         requirements       |-> requirements,
         criteria           |-> Get(hackathon, "criteria", ""),
         evaluation_metrics |-> [precision         |-> sanitize_float(m.precision),
                                 recall            |-> sanitize_float(m.recall),
                                 f1_score          |-> sanitize_float(m.f1),
                                 cosine_similarity |-> sanitize_float(sim),
                                 accuracy          |-> sanitize_float(m.accuracy)]]

SimilarityKeys(results) == [i \in 1..Len(results) |-> results[i].similarity]

\* what a call gives back: a returned list, or an exception (hackathon.get
\* raises AttributeError on an item that is no dict, inside the one try of the
\* whole call, whose except clause raises it again)
Returned(value) == [status |-> "returned", value |-> value]
Raised(error)   == [status |-> "raised", error |-> error]

SBERTModel_analyze_hackathons(hackathons, user_skills) ==
    LET user_embedding == encode_text(Join(user_skills))
        similarities   == Similarities(hackathons, user_embedding)
        m              == BatchMetrics(TrueLabels(similarities), PredictedLabels(similarities))
        results        == [i \in 1..Len(hackathons) |-> SbertResult(hackathons[i], similarities[i], m)]
    IN  IF \E i \in 1..Len(hackathons) : ~IsDict(hackathons[i]) THEN Raised("AttributeError")
        ELSE IF Len(similarities) = 0 THEN Raised("ValueError")
        ELSE Returned(SortDescending(results, SimilarityKeys(results)))

(***************************************************************************)
(* visualize_truncation: the three truncation methods                      *)
(***************************************************************************)
\* text[:max_length] + "..." if len(text) > max_length else text
simple_truncated(text, max_length) ==
    IF Len(text) > max_length THEN SubSeq(text, 1, max_length) \o "..." ELSE text

\* text.split(): the maximal runs of characters that are not whitespace
RECURSIVE split(_, _)
split(text, word) ==
    IF Len(text) = 0 THEN (IF word = "" THEN <<>> ELSE <<word>>)
    ELSE IF IsSpace(CharAt(text, 1))
         THEN (IF word = "" THEN <<>> ELSE <<word>>) \o split(SubSeq(text, 2, Len(text)), "")
         ELSE split(SubSeq(text, 2, Len(text)), word \o CharAt(text, 1))

RECURSIVE SkipSpaces(_)
SkipSpaces(text) ==
    IF Len(text) > 0 /\ IsSpace(CharAt(text, 1)) THEN SkipSpaces(SubSeq(text, 2, Len(text))) ELSE text

\* re.split(r'(?<=[.!?])\s+', text): the text is cut at every run of
\* whitespace that follows '.', '!' or '?'; the run is dropped
RECURSIVE re_split(_, _)
re_split(text, sentence) ==
    IF Len(text) = 0 THEN <<sentence>>
    ELSE IF /\ IsSpace(CharAt(text, 1))
            /\ Len(sentence) > 0
            /\ CharAt(sentence, Len(sentence)) \in {".", "!", "?"}
         THEN <<sentence>> \o re_split(SkipSpaces(text), "")
         ELSE re_split(SubSeq(text, 2, Len(text)), sentence \o CharAt(text, 1))

\* for piece in pieces: if char_count + len(piece) + 1 <= max_length, the piece
\* and a space are added, else the loop ends
RECURSIVE TruncationLoop(_, _, _, _)
TruncationLoop(pieces, truncated, char_count, max_length) ==
    IF Len(pieces) = 0 THEN truncated
    ELSE IF char_count + Len(Head(pieces)) + 1 <= max_length
         THEN TruncationLoop(Tail(pieces), truncated \o Head(pieces) \o " ",
                             char_count + Len(Head(pieces)) + 1, max_length)
         ELSE truncated

\* x.strip() + "..." if len(text) > max_length else x.strip()
Finish(truncated, text, max_length) ==
    IF Len(text) > max_length THEN strip(truncated) \o "..." ELSE strip(truncated)

word_truncated(text, max_length) ==
    Finish(TruncationLoop(split(text, ""), "", 0, max_length), text, max_length)

sentence_truncated(text, max_length) ==
    Finish(TruncationLoop(re_split(text, ""), "", 0, max_length), text, max_length)

(***************************************************************************)
(* The caller's arguments after a call                                     *)
(***************************************************************************)
\* variant: the input list is sorted in place, which turns a list in
\* ascending order around
Hackathons_Reversed(hackathons) ==
    [i \in 1..Len(hackathons) |-> hackathons[Len(hackathons) + 1 - i]]

\* SBERTModel.analyze_hackathons reads `hackathons` with .get and appends to
\* `results`, a list of its own, which is the one it sorts
Sbert_hackathons_after(hackathons) == hackathons

\* `user_skills` is only joined into user_text
Sbert_user_skills_after(user_skills) == user_skills

\* GeminiAPI.analyze_hackathons reads each hackathon and appends new dicts to
\* `recommendations`, the list it sorts
Gemini_hackathons_after(hackathons) == hackathons

\* calculate_match_score and calculate_evaluation_metrics rebind the local
\* name user_skills to a new list; the caller's list is not touched
Gemini_user_skills_after(user_skills) == user_skills

(***************************************************************************)
(* State                                                                   *)
(***************************************************************************)
VARIABLES
    kw_arg,        \* hackathon_keywords, the argument of the scoring calls
    skills_arg,    \* user_skills, the argument of the scoring and ranking calls
    score_ret,     \* what calculate_match_score returned, or None
    metrics_ret,   \* what calculate_evaluation_metrics returned, or None
    batch_arg,     \* hackathons, the batch given to analyze_hackathons
    gemini_ret,    \* outcome of GeminiAPI.analyze_hackathons, or None
    sbert_ret,     \* outcome of SBERTModel.analyze_hackathons, or None
    text_arg,      \* text, the argument of extract_keywords
    extracted_ret, \* what extract_keywords returned, or None
    app_variant,   \* the application that runs: "backend" (src/backend/main.py) or "lexical" (src/main.py)
    lifespan_pc,   \* the step the lifespan handler is at, "serving" after its yield
    bert_model,    \* the global bert_model, None or the loaded model
    hackathons_cache, \* the global hackathons_cache, None or the loaded list
    db_users,      \* the rows of the users table, in order of their id
    api_request,   \* the last request, or None
    api_response   \* the response to the last request, or None

scoringVars == <<kw_arg, skills_arg, score_ret, metrics_ret,
                 batch_arg, gemini_ret, sbert_ret, text_arg, extracted_ret>>

apiVars == <<app_variant, lifespan_pc, bert_model, hackathons_cache,
             db_users, api_request, api_response>>

vars == <<scoringVars, apiVars>>

\* no call made yet, nothing assigned yet
None == [none |-> TRUE]

\* no application runs
ApiIdle ==
    /\ app_variant = "backend"
    /\ lifespan_pc = "startup_hackathons"
    /\ bert_model = None
    /\ hackathons_cache = None
    /\ db_users = <<>>
    /\ api_request = None
    /\ api_response = None

\* no scoring function is called directly
ScoringIdle ==
    /\ kw_arg = <<>>
    /\ skills_arg = <<>>
    /\ score_ret = None
    /\ metrics_ret = None
    /\ batch_arg = <<>>
    /\ gemini_ret = None
    /\ sbert_ret = None
    /\ text_arg = ""
    /\ extracted_ret = None

\* bounds of the inputs
MaxKeywords == 3
MaxSkills == 1
MaxBatch == 6
MaxEdgeBatch == 3
MaxWords == 3

\* the words the texts given to extract_keywords are made of
WordPool == {"AI", "nlp", "js", "React", "docker", "art"}

RECURSIVE JoinWords(_)
JoinWords(words) ==
    IF Len(words) = 0 THEN ""
    ELSE IF Len(words) = 1 THEN words[1]
    ELSE words[1] \o " " \o JoinWords(Tail(words))

RECURSIVE ListsUpTo(_, _)
ListsUpTo(S, n) ==
    IF n = 0 THEN {<<>>}
    ELSE LET shorter == ListsUpTo(S, n - 1)
         IN  shorter \cup {Append(l, x) : l \in shorter, x \in S}

KeywordLists == ListsUpTo(KeywordPool, MaxKeywords)
SkillLists   == ListsUpTo(SkillPool, MaxSkills)
Batches      == ListsUpTo(HackathonPool, MaxBatch)
Texts        == {JoinWords(l) : l \in ListsUpTo(WordPool, MaxWords)}
EdgeBatches  == ListsUpTo(EdgePool, MaxEdgeBatch)

(***************************************************************************)
(* The scoring functions applied to drawn inputs                           *)
(***************************************************************************)
ScoreInit ==
    /\ kw_arg \in KeywordLists
    /\ skills_arg \in SkillLists
    /\ score_ret = None
    /\ metrics_ret = None
    /\ batch_arg = <<>>
    /\ gemini_ret = None
    /\ sbert_ret = None
    /\ text_arg = ""
    /\ extracted_ret = None
    /\ ApiIdle

CalculateMatchScore ==
    /\ score_ret = None
    /\ score_ret' = calculate_match_score(kw_arg, skills_arg)
    /\ UNCHANGED <<kw_arg, skills_arg, metrics_ret, batch_arg, gemini_ret, sbert_ret, text_arg, extracted_ret>>
    /\ UNCHANGED apiVars

CalculateEvaluationMetrics ==
    /\ score_ret # None
    /\ metrics_ret = None
    /\ metrics_ret' = calculate_evaluation_metrics(kw_arg, skills_arg)
    /\ UNCHANGED <<kw_arg, skills_arg, score_ret, batch_arg, gemini_ret, sbert_ret, text_arg, extracted_ret>>
    /\ UNCHANGED apiVars

\* the caller adds one more skill, a term of the keyword list, and scores again
RescoreWithSkill ==
    /\ score_ret # None
    /\ metrics_ret = None
    /\ skills_arg \in SkillLists
    /\ \E i \in 1..Len(kw_arg) :
          /\ skills_arg' = Append(skills_arg, kw_arg[i])
          /\ score_ret' = calculate_match_score(kw_arg, skills_arg')
    /\ UNCHANGED <<kw_arg, metrics_ret, batch_arg, gemini_ret, sbert_ret, text_arg, extracted_ret>>
    /\ UNCHANGED apiVars

ScoreNext == CalculateMatchScore \/ CalculateEvaluationMetrics \/ RescoreWithSkill

SpecScore == ScoreInit /\ [][ScoreNext]_vars

(***************************************************************************)
(* The two analyze_hackathons applied to a drawn batch                     *)
(***************************************************************************)
RankInit ==
    /\ batch_arg \in Batches \cup EdgeBatches
    /\ skills_arg \in RankSkillLists
    /\ kw_arg = <<>>
    /\ score_ret = None
    /\ metrics_ret = None
    /\ gemini_ret = None
    /\ sbert_ret = None
    /\ text_arg = ""
    /\ extracted_ret = None
    /\ ApiIdle

\* one run ranks the batch with one of the two variants
GeminiAnalyze ==
    /\ gemini_ret = None
    /\ sbert_ret = None
    /\ gemini_ret' = Returned(GeminiAPI_analyze_hackathons(batch_arg, skills_arg))
    /\ batch_arg' = Gemini_hackathons_after(batch_arg)
    /\ skills_arg' = Gemini_user_skills_after(skills_arg)
    /\ UNCHANGED <<kw_arg, score_ret, metrics_ret, sbert_ret, text_arg, extracted_ret>>
    /\ UNCHANGED apiVars

SbertAnalyze ==
    /\ sbert_ret = None
    /\ gemini_ret = None
    /\ sbert_ret' = SBERTModel_analyze_hackathons(batch_arg, skills_arg)
    /\ batch_arg' = Sbert_hackathons_after(batch_arg)
    /\ skills_arg' = Sbert_user_skills_after(skills_arg)
    /\ UNCHANGED <<kw_arg, score_ret, metrics_ret, gemini_ret, text_arg, extracted_ret>>
    /\ UNCHANGED apiVars

RankNext == GeminiAnalyze \/ SbertAnalyze

SpecRank == RankInit /\ [][RankNext]_vars

(***************************************************************************)
(* extract_keywords applied to a drawn text                                *)
(***************************************************************************)
ExtractInit ==
    /\ text_arg \in Texts
    /\ extracted_ret = None
    /\ kw_arg = <<>>
    /\ skills_arg = <<>>
    /\ score_ret = None
    /\ metrics_ret = None
    /\ batch_arg = <<>>
    /\ gemini_ret = None
    /\ sbert_ret = None
    /\ ApiIdle

ExtractKeywords ==
    /\ extracted_ret = None
    /\ extracted_ret' = Returned(extract_keywords(text_arg))
    /\ UNCHANGED <<kw_arg, skills_arg, score_ret, metrics_ret, batch_arg, gemini_ret, sbert_ret, text_arg>>
    /\ UNCHANGED apiVars

ExtractNext == ExtractKeywords

SpecExtract == ExtractInit /\ [][ExtractNext]_vars

(***************************************************************************)
(* POST /text-truncation applied to a drawn text and max_length            *)
(***************************************************************************)
MaxTextLen == 4
MaxLength == 5

\* the characters the texts are made of
TextChars == {"a", " ", "."}

RECURSIVE StringsUpTo(_, _)
StringsUpTo(S, n) ==
    IF n = 0 THEN {""}
    ELSE LET shorter == StringsUpTo(S, n - 1)
         IN  shorter \cup {t \o c : t \in shorter, c \in S}

TruncationTexts == StringsUpTo(TextChars, MaxTextLen)

JSONResponse(content, status_code) == [status_code |-> status_code, content |-> content]

\* the model was not loaded, so the optional embedding fields are left out;
\* they are computed from the three texts and change none of them
TruncateInit ==
    /\ ScoringIdle
    /\ app_variant = "backend"
    /\ lifespan_pc = "serving"
    /\ bert_model = None
    /\ hackathons_cache = None
    /\ db_users = <<>>
    /\ api_request \in [endpoint : {"text-truncation"}, text : TruncationTexts, max_length : 1..MaxLength]
    /\ api_response = None

\* the content holds the texts of the three methods; simple_truncated is
\* computed but not put in the response
visualize_truncation(request_data) ==
    IF request_data.text = ""
    THEN JSONResponse([error |-> "No text provided"], 400)
    ELSE JSONResponse([simple_truncated |-> simple_truncated(request_data.text, request_data.max_length),
                       sliding_window   |-> word_truncated(request_data.text, request_data.max_length),
                       sentence         |-> sentence_truncated(request_data.text, request_data.max_length)],
                      200)

VisualizeTruncation ==
    /\ lifespan_pc = "serving"
    /\ api_request # None
    /\ api_request.endpoint = "text-truncation"
    /\ api_response = None
    /\ api_response' = visualize_truncation(api_request)
    /\ UNCHANGED <<app_variant, lifespan_pc, bert_model, hackathons_cache, db_users, api_request>>
    /\ UNCHANGED scoringVars

TruncateNext == VisualizeTruncation

SpecTruncate == TruncateInit /\ [][TruncateNext]_vars

(***************************************************************************)
(* The two FastAPI applications: startup, users, recommendations           *)
(***************************************************************************)
MaxUsers == 2

UserNames == {"ann", "bob"}
Emails == {"ann@x.org", "bob@x.org"}
ApiSkillLists == {<<>>, <<"python">>}

TitleRecord(title) == CHOOSE h \in HackathonPool : h.title = title

\* what the CSV file may hold
CsvContents ==
    {<<>>, <<TitleRecord("Art Day")>>, <<TitleRecord("AI Jam"), TitleRecord("PyHack")>>}

\* a global that was assigned
Loaded(value) == [loaded |-> value]

\* raise HTTPException(status_code, detail), as the client sees it
HTTPException(status_code, detail) == JSONResponse([detail |-> detail], status_code)

\* str(e) of an exception
Str(e) == [str |-> e]

\* an exception that no handler catches is answered with 500 by the framework
InternalServerError == JSONResponse("Internal Server Error", 500)

\* variant: the columns are not declared unique
UniqueConstraint_None(users) == TRUE

\* username = Column(String, unique=True), email = Column(String, unique=True)
UniqueConstraint(users) ==
    \A i, j \in 1..Len(users) :
        i # j => users[i].username # users[j].username /\ users[i].email # users[j].email

\* db.commit(): the changed rows are stored unless a constraint is violated
commit(users) == IF UniqueConstraint(users) THEN Returned(users) ELSE Raised("IntegrityError")

\* db.query(User).filter(User.id == user_id).first()
HasUser(users, user_id) == user_id \in 1..Len(users)

NewUser(users, user_data) ==
    [id |-> Len(users) + 1, username |-> user_data.username,
     email |-> user_data.email, skills |-> user_data.skills]

\* the outcome of a handler: the response and the rows stored afterwards
Outcome(response, users) == [response |-> response, users |-> users]

backend_create_user(users, user_data) ==
    IF \E i \in 1..Len(users) :
           users[i].username = user_data.username \/ users[i].email = user_data.email
    THEN Outcome(HTTPException(400, "Username or email already exists."), users)
    ELSE LET committed == commit(Append(users, NewUser(users, user_data)))
         IN  IF committed.status = "returned"
             THEN Outcome(JSONResponse([id |-> Len(users) + 1, username |-> user_data.username], 200),
                          committed.value)
             ELSE Outcome(InternalServerError, users)

\* every exception of the body, the two HTTPExceptions included, is caught,
\* rolled back and raised again with status 400
lexical_create_user(users, user_data) ==
    IF \E i \in 1..Len(users) : users[i].username = user_data.username
    THEN Outcome(HTTPException(400, Str(HTTPException(400, "Username already registered"))), users)
    ELSE IF \E i \in 1..Len(users) : users[i].email = user_data.email
    THEN Outcome(HTTPException(400, Str(HTTPException(400, "Email already registered"))), users)
    ELSE LET committed == commit(Append(users, NewUser(users, user_data)))
         IN  IF committed.status = "returned"
             THEN Outcome(JSONResponse(NewUser(users, user_data), 200), committed.value)
             ELSE Outcome(HTTPException(400, Str(committed.error)), users)

\* the row with the fields of user_data that are present set
Updated(user, user_data) ==
    [id       |-> user.id,
     username |-> IF "username" \in DOMAIN user_data THEN user_data.username ELSE user.username,
     email    |-> user.email,
     skills   |-> IF "skills" \in DOMAIN user_data THEN user_data.skills ELSE user.skills]

UserView(user) == [username |-> user.username, email |-> user.email, skills |-> user.skills]

\* db.commit() is not guarded: an IntegrityError leaves the handler and the
\* session is closed without a commit
backend_update_user(users, user_id, user_data) ==
    IF ~HasUser(users, user_id)
    THEN Outcome(HTTPException(404, "User not found."), users)
    ELSE LET committed == commit([users EXCEPT ![user_id] = Updated(users[user_id], user_data)])
         IN  IF committed.status = "returned"
             THEN Outcome(JSONResponse(UserView(committed.value[user_id]), 200), committed.value)
             ELSE Outcome(InternalServerError, users)

\* a field of UserUpdate that is None is a field that is absent here
lexical_update_user(users, user_id, user_data) ==
    IF ~HasUser(users, user_id)
    THEN Outcome(HTTPException(404, "User not found"), users)
    ELSE LET committed == commit([users EXCEPT ![user_id] = Updated(users[user_id], user_data)])
         IN  IF committed.status = "returned"
             THEN Outcome(JSONResponse(committed.value[user_id], 200), committed.value)
             ELSE Outcome(HTTPException(400, Str(committed.error)), users)

\* variant: no check of the globals
Initialized_Always(model, cache) == TRUE

\* not (bert_model is None or hackathons_cache is None)
Initialized(model, cache) == model # None /\ cache # None

\* a response together with whether analyze_hackathons was invoked for it
Traced(response, invoked) ==
    [status_code |-> response.status_code, content |-> response.content,
     analyze_invoked |-> invoked]

\* bert_model.analyze_hackathons(hackathons_cache, user.skills): with no model
\* the attribute lookup fails before any call; with no cache the call fails
TryAnalyze(model, cache, user_skills) ==
    IF model = None THEN Raised("AttributeError")
    ELSE IF cache = None THEN Raised("TypeError")
    ELSE SBERTModel_analyze_hackathons(cache.loaded, user_skills)

\* return JSONResponse(content=recommendations), or
\* except Exception as e: raise HTTPException(status_code=500, ...)
Answer(attempt) ==
    IF attempt.status = "returned"
    THEN JSONResponse(attempt.value, 200)
    ELSE HTTPException(500, Str(attempt.error))

backend_get_recommendations(model, cache, users, user_id) ==
    IF ~Initialized(model, cache)
    THEN Traced(HTTPException(500, "Model or data not initialized."), FALSE)
    ELSE IF ~HasUser(users, user_id) \/ users[user_id].skills = <<>>
    THEN Traced(HTTPException(404, "User not found or missing skills."), FALSE)
    ELSE Traced(Answer(TryAnalyze(model, cache, users[user_id].skills)), model # None)

\* variant: the handler clears the cache
cache_Cleared(cache) == None

\* get_recommendations declares the two names global and only reads them
bert_model_after_get_recommendations(model) == model
hackathons_cache_after_get_recommendations(cache) == cache

\* src/gemini.py: the recommendations carry no evaluation_metrics
WithoutMetrics(recommendation) ==
    [f \in DOMAIN recommendation \ {"evaluation_metrics"} |-> recommendation[f]]

AllWithoutMetrics(recommendations) ==
    [i \in 1..Len(recommendations) |-> WithoutMetrics(recommendations[i])]

lexical_analyze_hackathons(hackathons, user_skills) ==
    AllWithoutMetrics(GeminiAPI_analyze_hackathons(hackathons, user_skills))

\* the body of the try: what it returns or the exception that leaves it.
\* csv is what get_hackathons_from_csv gives: the rows, or an HTTPException
\* with status 500 when the file cannot be read
get_recommendations_body(users, user_id, csv) ==
    IF ~HasUser(users, user_id) THEN Raised(HTTPException(404, "User not found"))
    ELSE IF users[user_id].skills = <<>> THEN Raised(HTTPException(400, "User has no skills specified"))
    ELSE IF csv.status = "raised" THEN Raised(HTTPException(500, Str(csv.error)))
    ELSE IF csv.value = <<>> THEN Raised(HTTPException(404, "No hackathons found in database"))
    ELSE Returned(lexical_analyze_hackathons(csv.value, users[user_id].skills))

\* return recommendations, or
\* except Exception as e: raise HTTPException(status_code=500, detail=str(e))
LexicalAnswer(attempt) == Traced(Answer(attempt), attempt.status = "returned")

lexical_get_recommendations(users, user_id, csv) ==
    LexicalAnswer(get_recommendations_body(users, user_id, csv))

CsvOutcomes == {Raised("FileNotFoundError")} \cup {Returned(rows) : rows \in CsvContents}

UserCreates == [username : UserNames, email : Emails, skills : ApiSkillLists]

UserUpdates ==
    [username : UserNames] \cup [skills : ApiSkillLists]
        \cup [username : UserNames, skills : ApiSkillLists]

\* the lexical application has no startup handler: its tables are created
\* when the module is imported
ApiInit ==
    /\ ScoringIdle
    /\ app_variant \in {"backend", "lexical"}
    /\ lifespan_pc = IF app_variant = "backend" THEN "startup_hackathons" ELSE "serving"
    /\ bert_model = None
    /\ hackathons_cache = None
    /\ db_users = <<>>
    /\ api_request = None
    /\ api_response = None

\* hackathons_cache = load_raw_hackathons(...)
LoadHackathons ==
    /\ app_variant = "backend"
    /\ lifespan_pc = "startup_hackathons"
    /\ \E rows \in CsvContents : hackathons_cache' = Loaded(rows)
    /\ lifespan_pc' = "startup_model"
    /\ UNCHANGED <<app_variant, bert_model, db_users, api_request, api_response>>
    /\ UNCHANGED scoringVars

\* load_raw_hackathons raises: except Exception ... yield
LoadHackathonsFails ==
    /\ app_variant = "backend"
    /\ lifespan_pc = "startup_hackathons"
    /\ lifespan_pc' = "serving"
    /\ UNCHANGED <<app_variant, bert_model, hackathons_cache, db_users, api_request, api_response>>
    /\ UNCHANGED scoringVars

\* bert_model = SBERTModel()
LoadModel ==
    /\ app_variant = "backend"
    /\ lifespan_pc = "startup_model"
    /\ bert_model' = Loaded("all-MiniLM-L6-v2")
    /\ lifespan_pc' = "startup_tables"
    /\ UNCHANGED <<app_variant, hackathons_cache, db_users, api_request, api_response>>
    /\ UNCHANGED scoringVars

\* SBERTModel() raises: except Exception ... yield
LoadModelFails ==
    /\ app_variant = "backend"
    /\ lifespan_pc = "startup_model"
    /\ lifespan_pc' = "serving"
    /\ UNCHANGED <<app_variant, bert_model, hackathons_cache, db_users, api_request, api_response>>
    /\ UNCHANGED scoringVars

\* Base.metadata.create_all and the yield, reached whether or not it raises
CreateTables ==
    /\ app_variant = "backend"
    /\ lifespan_pc = "startup_tables"
    /\ lifespan_pc' = "serving"
    /\ UNCHANGED <<app_variant, bert_model, hackathons_cache, db_users, api_request, api_response>>
    /\ UNCHANGED scoringVars

\* POST /users/
CreateUser ==
    /\ lifespan_pc = "serving"
    /\ Len(db_users) < MaxUsers
    /\ \E user_data \in UserCreates :
          LET outcome == IF app_variant = "backend"
                         THEN backend_create_user(db_users, user_data)
                         ELSE lexical_create_user(db_users, user_data)
          IN  /\ api_request' = [endpoint |-> "create_user", user_data |-> user_data]
              /\ api_response' = Traced(outcome.response, FALSE)
              /\ db_users' = outcome.users
    /\ UNCHANGED <<app_variant, lifespan_pc, bert_model, hackathons_cache>>
    /\ UNCHANGED scoringVars

\* PUT /users/{user_id}
UpdateUser ==
    /\ lifespan_pc = "serving"
    /\ \E user_id \in 1..(MaxUsers + 1), user_data \in UserUpdates :
          LET outcome == IF app_variant = "backend"
                         THEN backend_update_user(db_users, user_id, user_data)
                         ELSE lexical_update_user(db_users, user_id, user_data)
          IN  /\ api_request' = [endpoint |-> "update_user", user_id |-> user_id, user_data |-> user_data]
              /\ api_response' = Traced(outcome.response, FALSE)
              /\ db_users' = outcome.users
    /\ UNCHANGED <<app_variant, lifespan_pc, bert_model, hackathons_cache>>
    /\ UNCHANGED scoringVars

\* GET /recommendations/{user_id} of src/backend/main.py
GetRecommendations ==
    /\ app_variant = "backend"
    /\ lifespan_pc = "serving"
    /\ \E user_id \in 1..(MaxUsers + 1) :
          /\ api_request' = [endpoint |-> "recommendations", user_id |-> user_id]
          /\ api_response' = backend_get_recommendations(bert_model, hackathons_cache, db_users, user_id)
    /\ bert_model' = bert_model_after_get_recommendations(bert_model)
    /\ hackathons_cache' = hackathons_cache_after_get_recommendations(hackathons_cache)
    /\ UNCHANGED <<app_variant, lifespan_pc, db_users>>
    /\ UNCHANGED scoringVars

\* GET /recommendations/{user_id} of src/main.py
LexicalGetRecommendations ==
    /\ app_variant = "lexical"
    /\ lifespan_pc = "serving"
    /\ \E user_id \in 1..(MaxUsers + 1), csv \in CsvOutcomes :
          /\ api_request' = [endpoint |-> "recommendations", user_id |-> user_id, csv |-> csv]
          /\ api_response' = lexical_get_recommendations(db_users, user_id, csv)
    /\ UNCHANGED <<app_variant, lifespan_pc, bert_model, hackathons_cache, db_users>>
    /\ UNCHANGED scoringVars

ApiNext ==
    \/ LoadHackathons
    \/ LoadHackathonsFails
    \/ LoadModel
    \/ LoadModelFails
    \/ CreateTables
    \/ CreateUser
    \/ UpdateUser
    \/ GetRecommendations
    \/ LexicalGetRecommendations

SpecApi == ApiInit /\ [][ApiNext]_vars

(***************************************************************************)
(* Properties                                                              *)
(***************************************************************************)
Scored == score_ret # None
GeminiReturned == gemini_ret # None /\ gemini_ret.status = "returned"
SbertReturned  == sbert_ret # None /\ sbert_ret.status = "returned"

\* C1: calculate_match_score returns a value in [0,1], exactly 0.0 for an
\* empty keyword list, and 0.0 for an empty skill list.
C1_MatchScoreInUnit ==
    Scored =>
        /\ InUnit(score_ret)
        /\ (kw_arg = <<>> => score_ret = Zero)
        /\ (skills_arg = <<>> => FEq(score_ret, Zero))

\* a score whose base_score + bonus exceeds 1, so that the clamp acts
C1_Witness ==
    /\ Scored
    /\ kw_arg # <<>>
    /\ skills_arg # <<>>
    /\ FLt(One, FAdd(BaseScore(Matches(kw_arg, skills_arg), NormalizeList(kw_arg)),
                     Bonus(Matches(kw_arg, skills_arg))))

\* C2: analyze_hackathons returns at most 5 entries, in the lexical and in
\* the embedding variant.
C2_AtMostFive ==
    /\ GeminiReturned => Len(gemini_ret.value) <= TopN
    /\ SbertReturned  => Len(sbert_ret.value) <= TopN

\* C3: the returned sequence is sorted in non-increasing order of its ranking
\* score: match_score in the lexical variant, similarity in the embedding one.
C3_SortedDescending ==
    /\ GeminiReturned =>
          \A i \in 1..(Len(gemini_ret.value) - 1) :
              FLeq(gemini_ret.value[i + 1].match_score, gemini_ret.value[i].match_score)
    /\ SbertReturned =>
          \A i \in 1..(Len(sbert_ret.value) - 1) :
              FLeq(sbert_ret.value[i + 1].similarity, sbert_ret.value[i].similarity)

\* a returned ranking whose best entry was not the first of the batch and
\* scores strictly more than its last entry: the sort moved it
C3_Witness ==
    /\ SbertReturned
    /\ Len(sbert_ret.value) >= 2
    /\ sbert_ret.value[1].title # batch_arg[1].title
    /\ FLt(sbert_ret.value[Len(sbert_ret.value)].similarity, sbert_ret.value[1].similarity)

\* the scenario of C4: K = {python, web, flask}, S = [python]
C4_Scenario ==
    /\ Scored
    /\ Len(kw_arg) = 3
    /\ ListToSet(kw_arg) = {"python", "web", "flask"}
    /\ skills_arg = <<"python">>

\* C4 as stated: matches = {python} only, base_score = 1/3, no bonus, and a
\* final score of about 0.33.
C4_Original ==
    C4_Scenario =>
        /\ Matches(kw_arg, skills_arg) = {"python"}
        /\ FEq(BaseScore(Matches(kw_arg, skills_arg), NormalizeList(kw_arg)), Frac(1, 3))
        /\ Bonus(Matches(kw_arg, skills_arg)).num = 0
        /\ Round(score_ret, 2) = Frac(33, 100)

\* C4 as amended: "python" expands to every term of the python category, so
\* matches = {python, flask}, base_score = 2/3, no bonus, and the final score
\* is 2/3, about 0.67.
C4_Amended ==
    C4_Scenario =>
        /\ Matches(kw_arg, skills_arg) = {"python", "flask"}
        /\ FEq(BaseScore(Matches(kw_arg, skills_arg), NormalizeList(kw_arg)), Frac(2, 3))
        /\ Bonus(Matches(kw_arg, skills_arg)).num = 0
        /\ FEq(score_ret, Frac(2, 3))
        /\ Round(score_ret, 2) = Frac(67, 100)

C4_Witness == C4_Scenario /\ kw_arg = <<"python", "web", "flask">>

\* the scenario of C5: S = [machine learning], K = {ai, nlp}
C5_Scenario ==
    /\ Scored
    /\ Len(kw_arg) = 2
    /\ ListToSet(kw_arg) = {"ai", "nlp"}
    /\ skills_arg = <<"machine learning">>

\* C5 as stated: matches = {ai}, base_score = 1/2, a bonus of 0.1, and a final
\* score of 0.6.
C5_Original ==
    C5_Scenario =>
        /\ Matches(kw_arg, skills_arg) = {"ai"}
        /\ FEq(BaseScore(Matches(kw_arg, skills_arg), NormalizeList(kw_arg)), Frac(1, 2))
        /\ FEq(Bonus(Matches(kw_arg, skills_arg)), Frac(1, 10))
        /\ FEq(score_ret, Frac(6, 10))

\* C5 as amended: "machine learning" expands to every term of the ai
\* category, "nlp" among them, so matches = {ai, nlp}, base_score = 2/2 = 1,
\* the bonus is 0.1 (for "ai") and the final score is min(1.0, 1.1) = 1.0.
C5_Amended ==
    C5_Scenario =>
        /\ Matches(kw_arg, skills_arg) = {"ai", "nlp"}
        /\ FEq(BaseScore(Matches(kw_arg, skills_arg), NormalizeList(kw_arg)), One)
        /\ FEq(Bonus(Matches(kw_arg, skills_arg)), Frac(1, 10))
        /\ FEq(score_ret, One)

C5_Witness == C5_Scenario /\ kw_arg = <<"ai", "nlp">>

\* C6: analyze_hackathons on an empty batch raises; it never returns (an
\* empty list) successfully, in either variant.
C6_EmptyBatchRaises ==
    batch_arg = <<>> =>
        /\ gemini_ret # None => gemini_ret.status = "raised"
        /\ sbert_ret # None => sbert_ret.status = "raised"

\* C7: each of the five set-based evaluation metrics lies in [0,1].
C7_MetricsInUnit ==
    metrics_ret # None =>
        /\ InUnit(metrics_ret.precision)
        /\ InUnit(metrics_ret.recall)
        /\ InUnit(metrics_ret.f1_score)
        /\ CosInUnit(metrics_ret.cosine_similarity)
        /\ InUnit(metrics_ret.accuracy)

\* C8: in the embedding variant every reported similarity and every
\* evaluation_metrics.cosine_similarity lies in [0,1].
C8_SimilarityInUnit ==
    SbertReturned =>
        \A i \in 1..Len(sbert_ret.value) :
            /\ InUnit(sbert_ret.value[i].similarity)
            /\ InUnit(sbert_ret.value[i].evaluation_metrics.cosine_similarity)

\* a fraction in lowest terms
Reduced(a) == LET g == GCD(a.num, a.den) IN Frac(a.num \div g, a.den \div g)

\* C9 as stated: every returned match_score lies in [0,1], in both variants.
C9_Original ==
    /\ GeminiReturned =>
          \A i \in 1..Len(gemini_ret.value) : InUnit(gemini_ret.value[i].match_score)
    /\ SbertReturned =>
          \A i \in 1..Len(sbert_ret.value) : InUnit(sbert_ret.value[i].match_score)

\* C9 as amended: in the lexical variant every returned match_score lies in
\* [0,1]; in the embedding variant match_score is the similarity as a
\* percentage, 100 * similarity, and lies in [-100,100].
C9_Amended ==
    /\ GeminiReturned =>
          \A i \in 1..Len(gemini_ret.value) : InUnit(gemini_ret.value[i].match_score)
    /\ SbertReturned =>
          \A i \in 1..Len(sbert_ret.value) :
              /\ Reduced(sbert_ret.value[i].match_score)
                     = Reduced(Frac(100 * sbert_ret.value[i].similarity.num,
                                    sbert_ret.value[i].similarity.den))
              /\ FLeq(Frac(-100, 1), sbert_ret.value[i].match_score)
              /\ FLeq(sbert_ret.value[i].match_score, Frac(100, 1))

\* an embedding ranking that reports a match_score above 1
C9_Witness ==
    /\ SbertReturned
    /\ \E i \in 1..Len(sbert_ret.value) : FLt(One, sbert_ret.value[i].match_score)

\* C10: scoring again after a term of the keyword list is added to the skills
\* never gives a lower score.
C10_Monotone == [][RescoreWithSkill => FLeq(score_ret, score_ret')]_vars

\* a rescoring that raised the score: the skills end with a keyword and the
\* score without it was strictly lower
C10_Witness ==
    /\ Scored
    /\ Len(skills_arg) = MaxSkills + 1
    /\ InList(skills_arg[Len(skills_arg)], kw_arg)
    /\ FLt(calculate_match_score(kw_arg, SubSeq(skills_arg, 1, Len(skills_arg) - 1)), score_ret)

\* the titles of the items of a list whose title is in T, in list order
RECURSIVE TitlesIn(_, _)
TitlesIn(list, T) ==
    IF Len(list) = 0 THEN <<>>
    ELSE (IF IsDict(Head(list)) /\ Get(Head(list), "title", "") \in T
          THEN <<Get(Head(list), "title", "")>> ELSE <<>>) \o TitlesIn(Tail(list), T)

IsPrefix(a, b) == Len(a) <= Len(b) /\ SubSeq(b, 1, Len(a)) = a

\* for each ranking score of the output: the output entries with that score
\* list their titles in the order the batch lists those titles
TiesInInputOrder(out, keys, batch) ==
    \A k \in 1..Len(out) :
        LET tied == {i \in 1..Len(out) : FEq(keys[i], keys[k])}
            T    == {out[i].title : i \in tied}
        IN  IsPrefix(TitlesIn(out, T), TitlesIn(batch, T))

\* C11: hackathons with the same ranking score appear in the output in the
\* same relative order as in the input batch, in both variants.
C11_StableSort ==
    /\ GeminiReturned =>
          TiesInInputOrder(gemini_ret.value, MatchScores(gemini_ret.value), batch_arg)
    /\ SbertReturned =>
          TiesInInputOrder(sbert_ret.value, SimilarityKeys(sbert_ret.value), batch_arg)

\* a lexical ranking whose second and third entries tie, have different
\* titles, and were moved behind a better entry that came later in the batch
C11_Witness ==
    /\ GeminiReturned
    /\ Len(gemini_ret.value) = 3
    /\ FLt(gemini_ret.value[2].match_score, gemini_ret.value[1].match_score)
    /\ FEq(gemini_ret.value[2].match_score, gemini_ret.value[3].match_score)
    /\ gemini_ret.value[2].title # gemini_ret.value[3].title
    /\ batch_arg[1].title = gemini_ret.value[2].title

\* the items of a batch that are dicts
RECURSIVE Dicts(_)
Dicts(batch) ==
    IF Len(batch) = 0 THEN <<>>
    ELSE (IF IsDict(Head(batch)) THEN <<Head(batch)>> ELSE <<>>) \o Dicts(Tail(batch))

\* C12: an item whose processing raises is skipped alone: the call does not
\* raise for the batch and the other items are handled as if the bad item
\* were not there, in both variants.
C12_FailureIsolated ==
    (Dicts(batch_arg) # batch_arg /\ Dicts(batch_arg) # <<>>) =>
        /\ gemini_ret # None =>
              /\ gemini_ret.status = "returned"
              /\ gemini_ret.value = GeminiAPI_analyze_hackathons(Dicts(batch_arg), skills_arg)
        /\ sbert_ret # None =>
              /\ sbert_ret.status = "returned"
              /\ Len(sbert_ret.value) = Len(Dicts(batch_arg))

\* the lexical match score of each well-formed record of the pools
ScoreTable ==
    {<<h, s, calculate_match_score(AllKeywords(h), s)>> :
        h \in {x \in HackathonPool \cup EdgePool : "full_text" \in DOMAIN x}, s \in RankSkillLists}

ScoresZero(h, s) == \E e \in ScoreTable : e[1] = h /\ e[2] = s /\ FEq(e[3], Zero)

AllScoreZero == batch_arg # <<>> /\ \A i \in 1..Len(batch_arg) : ScoresZero(batch_arg[i], skills_arg)

\* C13: every result of the lexical variant has match_score > 0; a non-empty
\* batch whose hackathons all score 0 gives an empty list, returned without
\* an error.
C13_PositiveScoresOnly ==
    /\ gemini_ret # None => gemini_ret.status = "returned"
    /\ GeminiReturned =>
          \A i \in 1..Len(gemini_ret.value) : FLt(Zero, gemini_ret.value[i].match_score)
    /\ (GeminiReturned /\ AllScoreZero) => gemini_ret.value = <<>>

\* the lexical variant returned the empty list for a non-empty batch of
\* hackathons that all score 0 against a non-empty skill list
C13_Witness ==
    /\ GeminiReturned
    /\ AllScoreZero
    /\ skills_arg # <<>>
    /\ gemini_ret.value = <<>>

\* C14: analyze_hackathons answers an empty skill list with an error, never
\* with a returned list, in both variants.
C14_EmptySkillsRaise ==
    (skills_arg = <<>> /\ batch_arg # <<>>) =>
        /\ gemini_ret # None => gemini_ret.status = "raised"
        /\ sbert_ret # None => sbert_ret.status = "raised"

\* an embedding of norm 0
ZeroNorm(e) == e.finite /\ Dot(e.v, e.v) = 0

\* the model failed on the text, or gave it an embedding of norm 0
ZeroEmbedding(text) == ModelEncode(text) = Raises \/ ZeroNorm(encode_text(text))

\* C15: when the user embedding or a hackathon's embedding has norm 0 (the
\* zero vector of a failed encode included), that hackathon's similarity is
\* 0.0, and the call does not fail on the division.
C15_ZeroVectorSimilarity ==
    /\ (sbert_ret # None /\ batch_arg # <<>> /\ Dicts(batch_arg) = batch_arg) =>
          sbert_ret.status = "returned"
    /\ SbertReturned =>
          \A i \in 1..Len(sbert_ret.value) :
              (ZeroEmbedding(sbert_ret.value[i].description) \/ ZeroEmbedding(Join(skills_arg))) =>
                  /\ FEq(sbert_ret.value[i].similarity, Zero)
                  /\ FEq(sbert_ret.value[i].evaluation_metrics.cosine_similarity, Zero)

\* a ranking with an entry whose text the model failed on, next to an entry
\* with a similarity other than 0
C15_Witness ==
    /\ SbertReturned
    /\ ~ZeroEmbedding(Join(skills_arg))
    /\ \E i \in 1..Len(sbert_ret.value) : ModelEncode(sbert_ret.value[i].description) = Raises
    /\ \E j \in 1..Len(sbert_ret.value) : ~FEq(sbert_ret.value[j].similarity, Zero)

\* a category joins the expansion of a skill: as C16 states it (the skill is a
\* substring of a term), and as amended (a term is a substring of the skill)
JoinsAsStated(skill, entry) ==
    \/ skill = entry.category
    \/ \E i \in 1..Len(entry.terms) : skill = entry.terms[i]
    \/ \E i \in 1..Len(entry.terms) : Contains(entry.terms[i], skill)

JoinsAsAmended(skill, entry) ==
    \/ skill = entry.category
    \/ \E i \in 1..Len(entry.terms) : skill = entry.terms[i]
    \/ \E i \in 1..Len(entry.terms) : Contains(skill, entry.terms[i])

TermsOf(categories) == UNION {ListToSet(tech_keywords[c].terms) : c \in categories}

PoolStrings == {NormalizedPool[x] : x \in DOMAIN NormalizedPool}

StatedTable ==
    [skill \in PoolStrings |->
        {skill} \cup TermsOf({c \in 1..Len(tech_keywords) : JoinsAsStated(skill, tech_keywords[c])})]

AmendedTable ==
    [skill \in PoolStrings |->
        {skill} \cup TermsOf({c \in 1..Len(tech_keywords) : JoinsAsAmended(skill, tech_keywords[c])})]

StatedExpansion(skills)  == UNION {StatedTable[skills[i]] : i \in 1..Len(skills)}
AmendedExpansion(skills) == UNION {AmendedTable[skills[i]] : i \in 1..Len(skills)}

\* the score of a normalized keyword list against a given expanded skill set
ScoreGiven(keywords, expanded) ==
    IF Len(keywords) = 0 THEN Zero
    ELSE FinalScore(BaseScore(ListToSet(keywords) \cap expanded, keywords),
                    Bonus(ListToSet(keywords) \cap expanded))

\* C16 as stated: expanded_skills holds each skill and all terms of every
\* category whose name or one of whose terms the skill equals, or of one of
\* whose terms the skill is a substring, and nothing else; the score is the
\* score against that set.
C16_Original ==
    Scored =>
        /\ ExpandSkills(NormalizeList(skills_arg)) = StatedExpansion(NormalizeList(skills_arg))
        /\ FEq(score_ret, ScoreGiven(NormalizeList(kw_arg), StatedExpansion(NormalizeList(skills_arg))))

\* C16 as amended: expanded_skills holds each skill and all terms of every
\* category whose name or one of whose terms the skill equals, or one of whose
\* terms is a substring of the skill, and nothing else; the score is the
\* score against that set.
C16_Amended ==
    Scored =>
        /\ ExpandSkills(NormalizeList(skills_arg)) = AmendedExpansion(NormalizeList(skills_arg))
        /\ FEq(score_ret, ScoreGiven(NormalizeList(kw_arg), AmendedExpansion(NormalizeList(skills_arg))))

\* a score with a keyword matched only because a term ("web") is a substring
\* of a skill ("web security") that equals no term and is inside no term
C16_Witness ==
    /\ Scored
    /\ \E i \in 1..Len(skills_arg) :
          /\ Normalize(skills_arg[i]) = "web security"
          /\ StatedTable[Normalize(skills_arg[i])] = {"web security"}
    /\ "web" \in Matches(kw_arg, skills_arg)
    /\ "web" \notin StatedExpansion(NormalizeList(skills_arg))

\* the entries of a list that are not empty after trimming
RECURSIVE DropBlank(_)
DropBlank(list) ==
    IF Len(list) = 0 THEN <<>>
    ELSE (IF strip(Head(list)) = "" THEN <<>> ELSE <<Head(list)>>) \o DropBlank(Tail(list))

\* C17: entries that are empty after trimming are dropped: the score is the
\* score of the lists without their whitespace-only entries.
C17_BlankEntriesDropped ==
    Scored => FEq(score_ret, calculate_match_score(DropBlank(kw_arg), DropBlank(skills_arg)))

\* C18: the score depends only on the set of normalized keywords: it is the
\* score of the keyword list without its repetitions.
C18_DependsOnKeywordSet ==
    Scored =>
        FEq(score_ret, calculate_match_score(SetToList(ListToSet(NormalizeList(kw_arg))), skills_arg))

Advanced(term) == \E t \in {"ai", "machine learning", "cloud", "blockchain", "security"} : Contains(term, t)
WebMobile(term) == \E t \in {"web", "mobile", "fullstack", "frontend", "backend"} : Contains(term, t)

\* bonus steps of 0.05 each matched pool string earns: 2, 1 or 0
TierTable ==
    [term \in PoolStrings \cup TermsOf(1..Len(tech_keywords)) |->
        IF Advanced(term) THEN 2 ELSE IF WebMobile(term) THEN 1 ELSE 0]

\* C19: each matched term adds 0.1 if it contains an advanced term, else 0.05
\* if it contains a web/mobile term, else nothing, and the score is
\* min(1.0, base_score + the sum of these).
C19_BonusTiers ==
    (Scored /\ NormalizeList(kw_arg) # <<>>) =>
        LET matches == Matches(kw_arg, skills_arg)
            tenths  == Cardinality({m \in matches : TierTable[m] = 2})
            halves  == Cardinality({m \in matches : TierTable[m] = 1})
        IN  FEq(score_ret,
                FMin(One, FAdd(Frac(Cardinality(matches), Len(NormalizeList(kw_arg))),
                               Frac(2 * tenths + halves, 20))))

\* an unclamped score with a matched term that satisfies both tiers
C19_Witness ==
    /\ Scored
    /\ FLt(score_ret, One)
    /\ \E m \in Matches(kw_arg, skills_arg) : Advanced(m) /\ WebMobile(m)

\* the terms of a category that occur in the lowercased text
TermsFound(entry, text) == {i \in 1..Len(entry.terms) : Contains(lower(text), entry.terms[i])}

\* C20: for every category with a term that occurs in the lowercased text,
\* extract_keywords returns the category name and the matched term (the
\* first term of the category that occurs).
C20_TaxonomyMatchesKept ==
    extracted_ret # None =>
        \A c \in 1..Len(tech_keywords) :
            LET found == TermsFound(tech_keywords[c], text_arg)
            IN  found # {} =>
                    /\ tech_keywords[c].category \in extracted_ret.value
                    /\ tech_keywords[c].terms[CHOOSE i \in found : \A j \in found : i <= j]
                           \in extracted_ret.value

\* the similarity reported for the hackathon of a description (one value for
\* each description within a call), in ten-thousandths
ReportedSimilarity(description) ==
    (CHOOSE e \in ListToSet(sbert_ret.value) : e.description = description).similarity.num

\* the similarities in batch order
BatchSimilarities == [i \in 1..Len(batch_arg) |-> ReportedSimilarity(batch_arg[i].description)]

RECURSIVE SumTo(_, _)
SumTo(f, n) == IF n = 0 THEN 0 ELSE f[n] + SumTo(f, n - 1)

\* index i of n (counted from 1) is labelled relevant / predicted relevant
LabelledRelevant(i, n) == i - 1 < n \div 2
PredictedRelevant(i, sims) == sims[i] * Len(sims) > SumTo(sims, Len(sims))

\* a / b rounded to 4 places, 0 when b = 0
Rounded4(a, b) == IF b = 0 THEN 0 ELSE (2 * a * 10000 + b) \div (2 * b)

\* C21: true label 1 iff i < floor(n/2), threshold the mean, predicted 1 iff
\* the similarity is strictly above the mean; precision, recall and f1 follow
\* from these labels and are all 0 when all similarities are equal.
C21_SyntheticLabels ==
    SbertReturned =>
        LET sims == BatchSimilarities
            n    == Len(sims)
            tp   == Cardinality({i \in 1..n : LabelledRelevant(i, n) /\ PredictedRelevant(i, sims)})
            fp   == Cardinality({i \in 1..n : ~LabelledRelevant(i, n) /\ PredictedRelevant(i, sims)})
            fn   == Cardinality({i \in 1..n : LabelledRelevant(i, n) /\ ~PredictedRelevant(i, sims)})
        IN  \A k \in 1..Len(sbert_ret.value) :
                LET m == sbert_ret.value[k].evaluation_metrics
                IN  /\ m.precision.den = 10000 /\ m.precision.num = Rounded4(tp, tp + fp)
                    /\ m.recall.den = 10000 /\ m.recall.num = Rounded4(tp, tp + fn)
                    /\ m.f1_score.den = 10000 /\ m.f1_score.num = Rounded4(2 * tp, 2 * tp + fp + fn)
                    /\ (\A i \in 1..n : sims[i] = sims[1]) =>
                           m.precision.num = 0 /\ m.recall.num = 0 /\ m.f1_score.num = 0

\* a ranking of two or more hackathons that all have the same similarity,
\* other than 0
C21_Witness ==
    /\ SbertReturned
    /\ Len(sbert_ret.value) >= 2
    /\ sbert_ret.value[1].similarity.num # 0
    /\ \A k \in 1..Len(sbert_ret.value) : sbert_ret.value[k].similarity = sbert_ret.value[1].similarity

\* C24: a call of analyze_hackathons (and of the scoring functions it calls)
\* leaves the caller's skill list and the input hackathon list, records and
\* order, as they were.
C24_InputsUntouched ==
    [][(gemini_ret' # gemini_ret \/ sbert_ret' # sbert_ret) =>
           batch_arg' = batch_arg /\ skills_arg' = skills_arg]_vars

\* a ranking was returned whose order differs from the order of the input
C24_Witness ==
    /\ SbertReturned
    /\ Len(sbert_ret.value) = Len(batch_arg)
    /\ \E i \in 1..Len(batch_arg) : sbert_ret.value[i].title # batch_arg[i].title

Truncated == api_response # None /\ api_response.status_code = 200

\* C26: for a non-empty text no longer than max_length, the three
\* truncation methods return the full content of the text, no word dropped
\* and no "..." added.
C26_ShortTextKept ==
    Truncated /\ Len(api_request.text) <= api_request.max_length =>
        /\ api_response.content.simple_truncated = api_request.text
        /\ split(api_response.content.sliding_window, "") = split(api_request.text, "")
        /\ split(api_response.content.sentence, "") = split(api_request.text, "")

Serving == lifespan_pc = "serving"
Recommending == api_request # None /\ api_request.endpoint = "recommendations"

\* C22 as stated: once a request was served by the backend application, the
\* embedding model and the hackathon cache are both initialized.
C22_InitializedBeforeServing ==
    app_variant = "backend" /\ api_response # None =>
        bert_model # None /\ hackathons_cache # None

\* C22: each of the two globals is assigned at most once, by the startup
\* handler before any request is served, the cache first; no request handler
\* reassigns them; after a failed startup step requests are served with the
\* globals that were not reached still None.
C22_Amended ==
    [][/\ hackathons_cache' # hackathons_cache =>
              lifespan_pc = "startup_hackathons" /\ hackathons_cache = None
       /\ bert_model' # bert_model =>
              lifespan_pc = "startup_model" /\ bert_model = None /\ hackathons_cache # None
       /\ Serving => /\ lifespan_pc' = "serving"
                     /\ bert_model' = bert_model
                     /\ hackathons_cache' = hackathons_cache
       /\ api_response' # None => Serving]_vars

\* a recommendation request was served with the cache loaded and no model
C22_Witness ==
    /\ app_variant = "backend"
    /\ Recommending
    /\ api_response # None
    /\ hackathons_cache # None
    /\ bert_model = None

\* C23: while the model or the hackathon data is not initialized, every
\* recommendation request of the backend application is answered with 500
\* and analyze_hackathons is not invoked; it is invoked only with both
\* globals initialized.
C23_UninitializedReported ==
    app_variant = "backend" /\ Recommending =>
        /\ (bert_model = None \/ hackathons_cache = None) =>
               api_response.status_code = 500 /\ ~api_response.analyze_invoked
        /\ api_response.analyze_invoked => bert_model # None /\ hackathons_cache # None

\* a user with skills asked for recommendations after the model failed to load
C23_Witness ==
    /\ app_variant = "backend"
    /\ Recommending
    /\ HasUser(db_users, api_request.user_id)
    /\ db_users[api_request.user_id].skills # <<>>
    /\ hackathons_cache # None
    /\ bert_model = None
    /\ api_response.status_code = 500

\* C25 as stated: the lexical get_recommendations answers 404 for an unknown
\* user id, 400 for a user with no skills, 404 for an empty hackathon source,
\* 500 only for an unexpected failure, and 200 with a list otherwise.
C25_DistinctStatuses ==
    app_variant = "lexical" /\ Recommending =>
        IF ~HasUser(db_users, api_request.user_id) THEN api_response.status_code = 404
        ELSE IF db_users[api_request.user_id].skills = <<>> THEN api_response.status_code = 400
        ELSE IF api_request.csv.status = "raised" THEN api_response.status_code = 500
        ELSE IF api_request.csv.value = <<>> THEN api_response.status_code = 404
        ELSE api_response.status_code = 200

\* no two rows share a username or an email
UniqueUsers(users) ==
    \A i, j \in 1..Len(users) :
        i # j => users[i].username # users[j].username /\ users[i].email # users[j].email

\* the request names a username or an email that is stored
DuplicateCreate(request, users) ==
    /\ request.endpoint = "create_user"
    /\ \E i \in 1..Len(users) :
           \/ users[i].username = request.user_data.username
           \/ users[i].email = request.user_data.email

\* the request renames a user to the username of another user
RenameToExisting(request, users) ==
    /\ request.endpoint = "update_user"
    /\ HasUser(users, request.user_id)
    /\ "username" \in DOMAIN request.user_data
    /\ \E i \in 1..Len(users) :
           i # request.user_id /\ users[i].username = request.user_data.username

\* C27: the stored users never share a username or an email; a create_user
\* request with a stored username or email and an update_user request that
\* renames a user to another user's username are answered with an error and
\* leave the stored users unchanged.
C27_UsersStayUnique ==
    [][/\ UniqueUsers(db_users')
       /\ api_request' # None /\ api_response' # None
              /\ (DuplicateCreate(api_request', db_users) \/ RenameToExisting(api_request', db_users))
          => api_response'.status_code >= 400 /\ db_users' = db_users]_vars

\* a rename to the username of another stored user was answered with an error
C27_Witness ==
    /\ api_request # None
    /\ RenameToExisting(api_request, db_users)
    /\ api_response.status_code >= 400
    /\ Len(db_users) = 2

====
